---- MODULE Spec2Model ----
(***************************************************************************)
(* Model of the MODBUS TCP web dashboard: the register codec               *)
(* (modbus_client.js), the device poll routines, snapshot store and poll   *)
(* scheduler (poller.js), the snapshot readers (server.js) and the         *)
(* telemetry transform (transform.js).                                     *)
(*                                                                         *)
(* Numbers.  Physical quantities (kW, %, kWh) are fixed-point integers in  *)
(* hundredths of their unit, so that one decimal (what toFixed(1) keeps)   *)
(* and one decimal more (what Math.round has to round away) both exist.    *)
(* JavaScript values that may be null or undefined are tagged records      *)
(* [t, v].  Time is in milliseconds.                                       *)
(***************************************************************************)
EXTENDS Integers, Sequences, FiniteSets, TLC

VARIABLES
    snapshot,     \* poller.js `snapshot`: [ts, devices]
    running,      \* startPolling `running`
    isPolling,    \* startPolling `isPolling`
    loopPc,       \* where startPolling.loop is suspended
    rt,           \* per device: where its poll routine is suspended
    prev,         \* per device: the routine's local `prev`
    hrLocal,      \* pollPMS local `hr` (result of the first read)
    client,       \* per Modbus device: [connected, isOpen] of its ModbusClient
    now,          \* wall clock, ms
    timerDue,     \* due time of the loop's setTimeout (when loopPc = "sleep")
    budget,       \* disturbances (failures, slow answers) the environment may still inject
    faultable,    \* the devices whose I/O the environment may disturb
    plant,        \* index of the register contents the devices hold in this cycle
    cycleNo,      \* history: number of poll cycles started
    completed,    \* history: number of poll cycles completed (timestamp stamped)
    lastTick,     \* history: time the loop last evaluated its tick (loop top)
    skips,        \* history: number of ticks that took the skip branch
    held,         \* a reader's result of getSnapshot(), or NoSnapshot
    collectInFlight, \* server.js `collectInFlight`
    collector,    \* collectTick in flight: its batch; history: ticks fired
    poolQueries,  \* history: the pool.query calls issued, in order
    lastCommand,  \* server.js `lastCommand`
    wr,           \* the POST /api/pms/demand handler in flight, if any
    reply,        \* history: the response to the last POST /api/pms/demand
    deviceHR0,    \* holding register 0 of the PMS device, once written
    probe         \* argument and result of a pure function applied to an input

vars == << snapshot, running, isPolling, loopPc, rt, prev, hrLocal, client, now,
           timerDue, budget, faultable, plant, cycleNo, completed, lastTick, skips, held,
           collectInFlight, collector, poolQueries, lastCommand, wr, reply, deviceHR0,
           probe >>

\* the state of server.js next to the poller's
collectorVars == << collectInFlight, collector, poolQueries >>
writerVars == << lastCommand, wr, reply, deviceHR0 >>
serverVars == << collectorVars, writerVars >>

(***************************************************************************)
(* Bounds of the model                                                     *)
(***************************************************************************)
MaxCycles == 2        \* poll cycles started per behaviour
MaxFaults == 1        \* disturbances injected per behaviour
NumPlants == 2        \* distinct register contents the devices may hold
KwWindow == 25        \* half-width (hundredths of kW) of each window of encoder inputs
MaxCollectTicks == 2  \* collector ticks fired per behaviour
MaxWrites == 2        \* POST /api/pms/demand requests the server receives
MaxClientCalls == 4   \* calls made on the client on its own

(***************************************************************************)
(* Program constants                                                       *)
(***************************************************************************)
POLL_INTERVAL_MS == 1000
POWER_MIN_RAW == -32768
POWER_MAX_RAW == 32767

(***************************************************************************)
(* JavaScript values                                                       *)
(***************************************************************************)
Null == [t |-> "null", v |-> 0]
Undefined == [t |-> "undefined", v |-> 0]
Num(n) == [t |-> "num", v |-> n]
Str(s) == [t |-> "str", v |-> s]

IsNum(x) == x.t = "num"

\* `x || null` for a timestamp-or-null value
OrNull(x) == IF x.t \in {"null", "undefined"} THEN Null ELSE x

(***************************************************************************)
(* Register codec (modbus_client.js)                                       *)
(***************************************************************************)
\* Math.round: nearest integer, ties toward +Infinity. n is in tenths of the
\* result's unit: MathRound(25) = 3, MathRound(-25) = -2.
MathRound(n) == (n + 5) \div 10

\* Number.prototype.toFixed(1) followed by parseFloat, on hundredths:
\* nearest tenth, ties away from zero.
ToFixed1(c) == IF c >= 0 THEN ((c + 5) \div 10) * 10 ELSE -(((-c + 5) \div 10) * 10)

u16ToInt16_OffByOne(val) == IF val > 32768 THEN val - 65536 ELSE val

u16ToInt16(val) == IF val >= 32768 THEN val - 65536 ELSE val

int16ToU16(val) == val % 65536

\* regU16 * 0.1 kW, in hundredths of kW
decodePowerKw(regU16) == u16ToInt16(regU16) * 10

\* Math.round(kw / 0.1) for kw in hundredths of kW
encodeRaw(kw) == MathRound(kw)

encodeInRange_Inclusive(raw) == raw >= POWER_MIN_RAW /\ raw <= POWER_MAX_RAW + 1

\* the negation of the RangeError test
encodeInRange(raw) == ~(raw < POWER_MIN_RAW \/ raw > POWER_MAX_RAW)

\* [ok |-> FALSE] stands for the RangeError thrown
encodePowerKw(kw) ==
    LET raw == encodeRaw(kw)
    IN IF encodeInRange(raw)
       THEN [ok |-> TRUE, value |-> int16ToU16(raw)]
       ELSE [ok |-> FALSE, value |-> 0]

\* regU16 * scale, in hundredths; scale is given in tenths (1 -> 10, 0.1 -> 1)
decodeScaled(regU16, scaleTenths) == regU16 * scaleTenths * 10

(***************************************************************************)
(* Devices and snapshot slots (poller.js)                                  *)
(***************************************************************************)
PcsKeys == {"pcs1", "pcs2"}
BmsKeys == {"bms1", "bms2"}
ModbusKeys == {"pms"} \cup PcsKeys \cup BmsKeys
DeviceKeys == ModbusKeys \cup {"multimeter"}

\* DEVICE_PORTS[key]
DEVICE_PORTS(key) ==
    CASE key = "pms"  -> [port |-> 15020, unit_id |-> 1, type |-> "PMS"]
      [] key = "pcs1" -> [port |-> 15021, unit_id |-> 1, type |-> "PCS"]
      [] key = "pcs2" -> [port |-> 15022, unit_id |-> 1, type |-> "PCS"]
      [] key = "bms1" -> [port |-> 15024, unit_id |-> 1, type |-> "BMS"]
      [] key = "bms2" -> [port |-> 15025, unit_id |-> 1, type |-> "BMS"]

defaultComm(msg) == [ok |-> FALSE, last_ok_ts |-> Null, last_error |-> Str(msg)]

\* The five *_meta records of a slot are constants of the device kind; one
\* field `meta` stands for them.  `gen` is a history field: the cycle whose
\* holding-register read (hr) and input-register read (ir) produced the
\* slot's values, 0 for the initial nulls.
InitialSlot(key) ==
    CASE key = "pms" ->
           [unit_id |-> 1,
            demand_control_power_kw |-> Null, total_active_power_kw |-> Null,
            soc_avg_pct |-> Null, soh_avg_pct |-> Null, capacity_total_kwh |-> Null,
            demand_control_power_raw |-> Null, total_active_power_raw |-> Null,
            soc_avg_raw |-> Null, soh_avg_raw |-> Null, capacity_total_raw |-> Null,
            meta |-> "PMS", gen |-> [hr |-> 0, ir |-> 0],
            comm |-> defaultComm("not polled yet")]
      [] key \in PcsKeys ->
           [unit_id |-> 1, port |-> DEVICE_PORTS(key).port,
            active_power_kw |-> Null, active_power_raw |-> Null,
            meta |-> "PCS", gen |-> [hr |-> 0, ir |-> 0],
            comm |-> defaultComm("not polled yet")]
      [] key \in BmsKeys ->
           [unit_id |-> 1, port |-> DEVICE_PORTS(key).port,
            soc_pct |-> Null, soh_pct |-> Null, capacity_kwh |-> Null,
            soc_raw |-> Null, soh_raw |-> Null, capacity_raw |-> Null,
            meta |-> "BMS", gen |-> [hr |-> 0, ir |-> 0],
            comm |-> defaultComm("not polled yet")]
      [] key = "multimeter" ->
           [unit_id |-> 10,
            active_power_kw |-> Null, active_power_raw |-> Null,
            meta |-> "RTU", gen |-> [hr |-> 0, ir |-> 0],
            comm |-> defaultComm("bridge not polled yet")]

InitialSnapshot == [ts |-> Null, devices |-> [key \in DeviceKeys |-> InitialSlot(key)]]

\* pollPMS, success: the whole slot is replaced.  hr = [data, gen],
\* ir = [data, gen]; data is the sequence of registers read.
PmsSlotOk(hr, ir, nowTs) ==
    [unit_id |-> DEVICE_PORTS("pms").unit_id,
     demand_control_power_kw |-> Num(ToFixed1(decodePowerKw(hr.data[1]))),
     total_active_power_kw   |-> Num(ToFixed1(decodePowerKw(ir.data[1]))),
     soc_avg_pct             |-> Num(decodeScaled(ir.data[2], 10)),
     soh_avg_pct             |-> Num(decodeScaled(ir.data[3], 10)),
     capacity_total_kwh      |-> Num(ToFixed1(decodeScaled(ir.data[4], 1))),
     demand_control_power_raw |-> Num(hr.data[1]),
     total_active_power_raw   |-> Num(ir.data[1]),
     soc_avg_raw              |-> Num(ir.data[2]),
     soh_avg_raw              |-> Num(ir.data[3]),
     capacity_total_raw       |-> Num(ir.data[4]),
     meta |-> "PMS", gen |-> [hr |-> hr.gen, ir |-> ir.gen],
     comm |-> [ok |-> TRUE, last_ok_ts |-> Num(nowTs), last_error |-> Null]]

\* pollPMS, between the two reads: the slot is not touched.
PmsSlotAfterHR_EarlyWrite(slot, hr) ==
    [slot EXCEPT !.demand_control_power_kw = Num(ToFixed1(decodePowerKw(hr.data[1]))),
                 !.demand_control_power_raw = Num(hr.data[1]),
                 !.gen.hr = hr.gen]

PmsSlotAfterHR(slot, hr) == slot

\* pollPMS, catch: the slot's comm record is mutated in place.
PmsSlotFail_ClearsData(slot, msg) ==
    [InitialSlot("pms") EXCEPT !.comm = [ok |-> FALSE, last_ok_ts |-> slot.comm.last_ok_ts,
                                         last_error |-> Str(msg)]]

PmsSlotFail(slot, msg) ==
    [slot EXCEPT !.comm.ok = FALSE, !.comm.last_error = Str(msg)]

PcsSlotOk_KeepsPrevValues(prevSlot, ir, nowTs) ==
    [prevSlot EXCEPT !.comm = [ok |-> TRUE, last_ok_ts |-> Num(nowTs), last_error |-> Null]]

\* pollPCS, success: { ...prev, active_power_kw, active_power_raw, comm }
PcsSlotOk(prevSlot, ir, nowTs) ==
    [prevSlot EXCEPT !.active_power_kw = Num(ToFixed1(decodePowerKw(ir.data[1]))),
                     !.active_power_raw = Num(ir.data[1]),
                     !.gen = [hr |-> ir.gen, ir |-> ir.gen],
                     !.comm = [ok |-> TRUE, last_ok_ts |-> Num(nowTs), last_error |-> Null]]

\* pollBMS, success: { ...prev, soc_pct, soh_pct, capacity_kwh, raws, comm }
BmsSlotOk_RawIndexSlip(prevSlot, ir, nowTs) ==
    [prevSlot EXCEPT !.soc_pct = Num(decodeScaled(ir.data[1], 10)),
                     !.soh_pct = Num(decodeScaled(ir.data[2], 10)),
                     !.capacity_kwh = Num(ToFixed1(decodeScaled(ir.data[3], 1))),
                     !.soc_raw = Num(ir.data[1]),
                     !.soh_raw = Num(ir.data[1]),
                     !.capacity_raw = Num(ir.data[3]),
                     !.gen = [hr |-> ir.gen, ir |-> ir.gen],
                     !.comm = [ok |-> TRUE, last_ok_ts |-> Num(nowTs), last_error |-> Null]]

BmsSlotOk(prevSlot, ir, nowTs) ==
    [prevSlot EXCEPT !.soc_pct = Num(decodeScaled(ir.data[1], 10)),
                     !.soh_pct = Num(decodeScaled(ir.data[2], 10)),
                     !.capacity_kwh = Num(ToFixed1(decodeScaled(ir.data[3], 1))),
                     !.soc_raw = Num(ir.data[1]),
                     !.soh_raw = Num(ir.data[2]),
                     !.capacity_raw = Num(ir.data[3]),
                     !.gen = [hr |-> ir.gen, ir |-> ir.gen],
                     !.comm = [ok |-> TRUE, last_ok_ts |-> Num(nowTs), last_error |-> Null]]

\* pollPCS / pollBMS / pollMultimeter, catch:
\* { ...prev, comm: { ok: false, last_ok_ts: (prev.comm || {}).last_ok_ts || null, last_error } }
PrevSlotFail_DropsLastOk(prevSlot, key, msg) ==
    [prevSlot EXCEPT !.comm = [ok |-> FALSE, last_ok_ts |-> Null, last_error |-> Str(msg)]]

PrevSlotFail(prevSlot, key, msg) ==
    [prevSlot EXCEPT !.comm = [ok |-> FALSE,
                               last_ok_ts |-> OrNull(prevSlot.comm.last_ok_ts),
                               last_error |-> Str(msg)]]

\* pollMultimeter, success: the slot is rebuilt from the bridge's JSON body
\* data = [active_power_kw, raw, comm]; comm is Undefined when the body has none.
MultimeterSlotOk(data, gen) ==
    [unit_id |-> 10,
     active_power_kw |-> data.active_power_kw,
     active_power_raw |-> data.raw,
     meta |-> "RTU", gen |-> [hr |-> gen, ir |-> gen],
     comm |-> IF data.comm = Undefined
              THEN [ok |-> FALSE, last_ok_ts |-> Null, last_error |-> Str("no data from bridge")]
              ELSE data.comm]

(***************************************************************************)
(* Environment: the registers the devices hold and the bridge's answers    *)
(***************************************************************************)
\* Register contents of device `key` in plant state 1 (the values of the
\* transform example: 120.5 kW, -80.2 kW, 76 %, 98 %, 500.0 kWh).
RegSeed(key, bank, addr) ==
    CASE key = "pms" /\ bank = "HR" -> 1205
      [] key = "pms" /\ bank = "IR" /\ addr = 0 -> 64734
      [] key = "pms" /\ bank = "IR" /\ addr = 1 -> 76
      [] key = "pms" /\ bank = "IR" /\ addr = 2 -> 98
      [] key = "pms" /\ bank = "IR" /\ addr = 3 -> 5000
      [] key = "pcs1" -> 300
      [] key = "pcs2" -> 65236
      [] key \in BmsKeys /\ addr = 0 -> 55
      [] key \in BmsKeys /\ addr = 1 -> 97
      [] key \in BmsKeys /\ addr = 2 -> 2500
      [] key = "multimeter" -> 417

\* Register contents in plant state p; the devices' registers move to the
\* next plant state with every cycle.
RegValue(key, bank, addr, p) == (RegSeed(key, bank, addr) + (p - 1) * 32771) % 65536

\* The answer of a successful read of `count` registers from `addr`.
ReadRegs(key, bank, addr, count, p) == [i \in 1..count |-> RegValue(key, bank, addr + i - 1, p)]

\* Holding register 0 of the PMS: the device keeps a value written to it;
\* hr0 = [value, seq], seq a history field counting the writes it took.
PmsHoldingRegs(p, hr0) ==
    IF hr0.value = Null THEN ReadRegs("pms", "HR", 0, 1, p) ELSE << hr0.value.v >>

\* JSON bodies the bridge answers with: a reading with its own comm record,
\* a reading without one, and the bridge's report of its own failure.
BridgeReading(p, t) ==
    [active_power_kw |-> Num(ToFixed1(decodePowerKw(RegValue("multimeter", "IR", 0, p)))),
     raw |-> Num(RegValue("multimeter", "IR", 0, p)),
     comm |-> [ok |-> TRUE, last_ok_ts |-> Num(t), last_error |-> Null]]

BridgeReadingNoComm(p) ==
    [active_power_kw |-> Num(ToFixed1(decodePowerKw(RegValue("multimeter", "IR", 0, p)))),
     raw |-> Num(RegValue("multimeter", "IR", 0, p)),
     comm |-> Undefined]

BridgeSelfReportedFailure ==
    [active_power_kw |-> Null, raw |-> Null,
     comm |-> [ok |-> FALSE, last_ok_ts |-> Null, last_error |-> Str("rtu timeout")]]

ConnectErrors == {"connect ECONNREFUSED"}
ReadErrors == {"Timed out", "Port Not Open"}
\* request error, body that is not JSON, body that is the JSON value null
NullBodyError == "Cannot read properties of null (reading 'active_power_kw')"
FetchErrors == {"connect ECONNREFUSED", "Unexpected token < in JSON", NullBodyError}

(***************************************************************************)
(* Device Client Capability (modbus_client.js)                             *)
(***************************************************************************)
\* get isConnected
isConnected_FlagOnly(c) == c.connected

isConnected(c) == c.connected /\ c.isOpen

\* connect(), up to the await of connectTCP: an existing session is closed.
ConnectBegin_NoClose(c) == c

ConnectBegin(c) == IF c.connected THEN [c EXCEPT !.isOpen = FALSE] ELSE c

\* connect(), after connectTCP resolved / rejected
ConnectSucceeded(c) == [connected |-> TRUE, isOpen |-> TRUE]
ConnectFailed(c) == [connected |-> FALSE, isOpen |-> FALSE]

(***************************************************************************)
(* Poll scheduler and poll routines (poller.js)                            *)
(***************************************************************************)
NoSnapshot == [snap |-> [kind |-> "none", value |-> Null], completedAtRead |-> 0,
               cycleAtRead |-> 0]
NoProbe == [fn |-> "none"]

\* The write handler at rest, its response and the command record before any request
NoReply == [req |-> 0, body |-> Null, kw |-> Null, status |-> 0, error |-> Null,
            written_raw |-> Null, written_kw |-> Null, connects |-> 0, writes |-> 0]
IdleHandler == [pc |-> "idle", req |-> 0, body |-> Null, kw |-> Null, raw |-> 0, connects |-> 0,
                writes |-> 0]
NoCommand == [kw |-> Null, raw |-> Null, ts |-> Null, error |-> Null, valueOf |-> 0,
              outcomeOf |-> 0]

InitWith(devices, input) ==
    /\ faultable = devices
    /\ snapshot = InitialSnapshot
    /\ running = TRUE
    /\ isPolling = FALSE
    /\ loopPc = "boot"
    /\ rt = [d \in DeviceKeys |-> "idle"]
    /\ prev = [d \in DeviceKeys |-> InitialSlot(d)]
    /\ hrLocal = [data |-> << 0 >>, gen |-> 0, seq |-> 0]
    /\ client = [d \in ModbusKeys |-> [connected |-> FALSE, isOpen |-> FALSE]]
    /\ now = 0
    /\ timerDue = 0
    /\ budget = MaxFaults
    /\ plant = 1
    /\ cycleNo = 0
    /\ completed = 0
    /\ lastTick = 0
    /\ skips = 0
    /\ held = NoSnapshot
    /\ collectInFlight = FALSE
    /\ collector = [ticks |-> 0, rows |-> << >>]
    /\ poolQueries = << >>
    /\ lastCommand = NoCommand
    /\ wr = IdleHandler
    /\ reply = NoReply
    /\ deviceHR0 = [value |-> Null, seq |-> 0]
    /\ probe = input

Init == InitWith(DeviceKeys, NoProbe)

\* Promise.allSettled over the routines' resulting stages
\* ("done": the routine's try block completed; "failed": its catch block ran)
AllSettled_Any(r) == \E e \in DeviceKeys : r[e] \in {"done", "failed"}

AllSettled(r) == \A e \in DeviceKeys : r[e] \in {"done", "failed"}

\* `await pollAll(clients)` in the loop: the loop is suspended until the cycle ends
AwaitsPollAll_Forgotten == FALSE

AwaitsPollAll == TRUE

Pending(stage) == stage \in {"connect", "read", "read2", "fetch"}

\* One pass of startPolling.loop from `while (running)` to its next
\* suspension, with the clients in state cl.  Starting a cycle runs pollAll:
\* every routine runs up to its first pending I/O (a live client issues its
\* first read, another one closes its session and issues connectTCP).
LoopPass(cl) ==
    /\ lastTick' = IF loopPc = "boot" THEN now ELSE timerDue
    /\ IF ~running
       THEN /\ loopPc' = "exit"
            /\ client' = cl
            /\ UNCHANGED << isPolling, rt, prev, timerDue, plant, cycleNo, skips >>
       ELSE IF ~isPolling
       THEN /\ cycleNo' = cycleNo + 1
            /\ plant' = (plant % NumPlants) + 1
            /\ prev' = snapshot.devices
            /\ rt' = [d \in DeviceKeys |->
                        IF d = "multimeter" THEN "fetch"
                        ELSE IF isConnected(cl[d]) THEN "read" ELSE "connect"]
            /\ client' = [d \in ModbusKeys |->
                        IF isConnected(cl[d]) THEN cl[d] ELSE ConnectBegin(cl[d])]
            /\ IF AwaitsPollAll
               THEN isPolling' = TRUE /\ loopPc' = "cycle" /\ timerDue' = timerDue
               ELSE isPolling' = FALSE /\ loopPc' = "sleep"
                    /\ timerDue' = now + POLL_INTERVAL_MS
            /\ UNCHANGED skips
       ELSE /\ skips' = skips + 1
            /\ loopPc' = "sleep"
            /\ timerDue' = now + POLL_INTERVAL_MS
            /\ client' = cl
            /\ UNCHANGED << isPolling, rt, prev, plant, cycleNo >>

\* main(): the initial connects (S = the clients that connected), then
\* startPolling, whose loop() runs its first pass at once.
Main ==
    /\ loopPc = "boot"
    /\ \E S \in SUBSET ModbusKeys :
         /\ ModbusKeys \ S \subseteq faultable
         /\ Cardinality(ModbusKeys \ S) <= budget
         /\ budget' = budget - Cardinality(ModbusKeys \ S)
         /\ LoopPass([d \in ModbusKeys |->
                        IF d \in S THEN ConnectSucceeded(client[d])
                        ELSE ConnectFailed(client[d])])
    /\ UNCHANGED << serverVars, faultable, snapshot, running, hrLocal, now, completed, held, probe >>

\* The loop's setTimeout fires one interval after it was armed.
TimerFires ==
    /\ loopPc = "sleep"
    /\ (running => cycleNo < MaxCycles)
    /\ now' = timerDue
    /\ LoopPass(client)
    /\ UNCHANGED << serverVars, faultable, snapshot, running, hrLocal, budget, completed, held, probe >>

\* The assignment `snapshot.devices[key] = ...` of routine d (for the PMS
\* catch, the update of its own slot's comm in place).
WriteSlot_WholeMap(devices, d, newSlot) ==
    [e \in DeviceKeys |-> IF e = d THEN newSlot ELSE prev[e]]

WriteSlot(devices, d, newSlot) == [devices EXCEPT ![d] = newSlot]

\* A routine ends in `stage` having written newSlot; when it is the last one, pollAll
\* resumes in the same turn: it stamps the timestamp, and the loop runs its
\* `finally` and arms the timer.
Finish(d, newSlot, stage) ==
    LET devs == WriteSlot(snapshot.devices, d, newSlot)
        rt2 == [rt EXCEPT ![d] = stage]
    IN /\ rt' = rt2
       /\ IF AllSettled(rt2)
          THEN /\ snapshot' = [ts |-> Num(now), devices |-> devs]
               /\ completed' = completed + 1
               /\ IF loopPc = "cycle"
                  THEN isPolling' = FALSE /\ loopPc' = "sleep"
                       /\ timerDue' = now + POLL_INTERVAL_MS
                  ELSE UNCHANGED << isPolling, loopPc, timerDue >>
          ELSE /\ snapshot' = [snapshot EXCEPT !.devices = devs]
               /\ UNCHANGED << completed, isPolling, loopPc, timerDue >>

\* Where a routine stands once its catch block has run: the block reads
\* err.message and assigns to the routine's own slot, which is always an
\* object, so it runs to its end ("threw" would be a routine ended by an
\* exception).
CatchEnds_Rethrows(d, msg) == "threw"
CatchEnds(d, msg) == "failed"

\* The slot a failed routine leaves
FailSlot(d, msg) ==
    IF d = "pms" THEN PmsSlotFail(snapshot.devices[d], msg)
    ELSE PrevSlotFail(prev[d], d, msg)

\* connectTCP resolved: the routine goes on to its first read.
ConnectOk(d) ==
    /\ rt[d] = "connect"
    /\ client' = [client EXCEPT ![d] = ConnectSucceeded(client[d])]
    /\ rt' = [rt EXCEPT ![d] = "read"]
    /\ UNCHANGED << serverVars, faultable, snapshot, running, isPolling, loopPc, prev, hrLocal, now, timerDue,
                    budget, plant, cycleNo, completed, lastTick, skips, held, probe >>

\* connectTCP rejected: connect() rethrows, the routine's catch records it.
\* A device whose previous connect failed too is still down: no new disturbance.
ConnectFail(d, err) ==
    /\ rt[d] = "connect"
    /\ d \in faultable
    /\ LET cost == IF client[d].connected THEN 1 ELSE 0
       IN cost <= budget /\ budget' = budget - cost
    /\ client' = [client EXCEPT ![d] = ConnectFailed(client[d])]
    /\ Finish(d, FailSlot(d, err), CatchEnds(d, err))
    /\ UNCHANGED << serverVars, faultable, running, prev, hrLocal, now, plant, cycleNo, lastTick, skips,
                    held, probe >>

\* pollPMS: readHR answered; readIR is issued.
PmsReadHROk ==
    /\ rt["pms"] = "read"
    /\ LET hr == [data |-> PmsHoldingRegs(plant, deviceHR0), gen |-> cycleNo,
                  seq |-> deviceHR0.seq]
       IN /\ hrLocal' = hr
          /\ snapshot' = [snapshot EXCEPT
                            !.devices["pms"] = PmsSlotAfterHR(snapshot.devices["pms"], hr)]
    /\ rt' = [rt EXCEPT !["pms"] = "read2"]
    /\ UNCHANGED << serverVars, faultable, running, isPolling, loopPc, prev, client, now, timerDue, budget,
                    plant, cycleNo, completed, lastTick, skips, held, probe >>

\* pollPMS: readIR answered; the slot is replaced.
PmsReadIROk ==
    /\ rt["pms"] = "read2"
    /\ Finish("pms", PmsSlotOk(hrLocal,
                               [data |-> ReadRegs("pms", "IR", 0, 4, plant), gen |-> cycleNo],
                               now), "done")
    /\ UNCHANGED << serverVars, faultable, running, prev, hrLocal, client, now, budget, plant, cycleNo,
                    lastTick, skips, held, probe >>

\* pollPCS / pollBMS: readIR answered; the slot is replaced.
ReadIROk(d) ==
    /\ d \in PcsKeys \cup BmsKeys
    /\ rt[d] = "read"
    /\ Finish(d, IF d \in PcsKeys
                 THEN PcsSlotOk(prev[d],
                                [data |-> ReadRegs(d, "IR", 0, 1, plant), gen |-> cycleNo], now)
                 ELSE BmsSlotOk(prev[d],
                                [data |-> ReadRegs(d, "IR", 0, 3, plant), gen |-> cycleNo], now),
              "done")
    /\ UNCHANGED << serverVars, faultable, running, prev, hrLocal, client, now, budget, plant, cycleNo,
                    lastTick, skips, held, probe >>

\* A read of a Modbus device fails (timeout, or the socket was lost).
ReadFail(d, err) ==
    /\ d \in ModbusKeys
    /\ rt[d] \in {"read", "read2"}
    /\ d \in faultable
    /\ budget > 0
    /\ budget' = budget - 1
    /\ client' = [client EXCEPT ![d].isOpen = (err # "Port Not Open")]
    /\ Finish(d, FailSlot(d, err), CatchEnds(d, err))
    /\ UNCHANGED << serverVars, faultable, running, prev, hrLocal, now, plant, cycleNo, lastTick, skips,
                    held, probe >>

\* pollMultimeter: the bridge answered with a JSON object.
FetchOk ==
    /\ rt["multimeter"] = "fetch"
    /\ \E data \in {BridgeReading(plant, now), BridgeReadingNoComm(plant),
                    BridgeSelfReportedFailure} :
         LET cost == IF data = BridgeReading(plant, now) THEN 0 ELSE 1
         IN /\ cost <= budget
            /\ (cost > 0 => "multimeter" \in faultable)
            /\ budget' = budget - cost
            /\ Finish("multimeter", MultimeterSlotOk(data, cycleNo), "done")
    /\ UNCHANGED << serverVars, faultable, running, prev, hrLocal, client, now, plant, cycleNo, lastTick,
                    skips, held, probe >>

\* pollMultimeter: the request failed or the body was not a JSON object.
FetchFail(err) ==
    /\ rt["multimeter"] = "fetch"
    /\ "multimeter" \in faultable
    /\ budget > 0
    /\ budget' = budget - 1
    /\ Finish("multimeter",
              PrevSlotFail(snapshot.devices["multimeter"], "multimeter",
                           "Bridge unreachable: " \o err), CatchEnds("multimeter", err))
    /\ UNCHANGED << serverVars, faultable, running, prev, hrLocal, client, now, plant, cycleNo, lastTick,
                    skips, held, probe >>

\* A device answers slowly: one polling interval passes while the cycle runs.
SlowAnswer ==
    /\ \E d \in faultable : Pending(rt[d])
    /\ budget > 0
    /\ now' = now + POLL_INTERVAL_MS
    /\ budget' = budget - 1
    /\ UNCHANGED << serverVars, faultable, snapshot, running, isPolling, loopPc, rt, prev, hrLocal, client,
                    timerDue, plant, cycleNo, completed, lastTick, skips, held, probe >>

PollerNext ==
    \/ Main
    \/ TimerFires
    \/ \E d \in ModbusKeys : ConnectOk(d)
    \/ \E d \in ModbusKeys, err \in ConnectErrors : ConnectFail(d, err)
    \/ PmsReadHROk
    \/ PmsReadIROk
    \/ \E d \in PcsKeys \cup BmsKeys : ReadIROk(d)
    \/ \E d \in ModbusKeys, err \in ReadErrors : ReadFail(d, err)
    \/ FetchOk
    \/ \E err \in FetchErrors : FetchFail(err)
    \/ SlowAnswer

Next == PollerNext

Spec == Init /\ [][Next]_vars

\* ---------------------------------------------------------------------------
\* What is bound to happen.  The loop runs and its timer fires.  A Modbus
\* read ends, answered or not: the client's library is given READ_TIMEOUT_MS
\* in the constructor and rejects a read that is not answered in time.  A
\* connect ends in success or in the error of the operating system's TCP
\* connect.  fetchJSON calls http.get without a timeout and without a socket
\* timeout: once the bridge has taken the request, only the bridge ends it,
\* so nothing obliges the model to end it.
\* ---------------------------------------------------------------------------
ReadEnds(d) ==
    \/ d = "pms" /\ (PmsReadHROk \/ PmsReadIROk)
    \/ ReadIROk(d)
    \/ \E err \in ReadErrors : ReadFail(d, err)

ConnectEnds(d) == ConnectOk(d) \/ \E err \in ConnectErrors : ConnectFail(d, err)

FetchEnds == FetchOk \/ \E err \in FetchErrors : FetchFail(err)

ModbusProgress ==
    /\ WF_vars(Main)
    /\ WF_vars(TimerFires)
    /\ \A d \in ModbusKeys : WF_vars(ConnectEnds(d)) /\ WF_vars(ReadEnds(d))

SpecFair == Spec /\ ModbusProgress

\* ---------------------------------------------------------------------------
\* Stopping the loop: stop() on the handle that startPolling returns
\* ---------------------------------------------------------------------------
\* stop() clears `running` and does nothing else; a caller holds the handle
\* once startPolling has returned, that is after the loop's first pass.
Stop ==
    /\ loopPc \notin {"boot", "exit"}
    /\ running
    /\ running' = FALSE
    /\ UNCHANGED << serverVars, faultable, snapshot, isPolling, loopPc, rt, prev, hrLocal, client, now,
                    timerDue, budget, plant, cycleNo, completed, lastTick, skips, held, probe >>

StopNext ==
    \/ PollerNext
    \/ Stop

InitStop == InitWith({"pms", "multimeter"}, NoProbe)

SpecStop == InitStop /\ [][StopNext]_vars

SpecStopFair == SpecStop /\ ModbusProgress

(***************************************************************************)
(* Snapshot readers (poller.js getSnapshot; server.js GET /api/snapshot    *)
(* and collectTick)                                                        *)
(***************************************************************************)
\* What a caller of getSnapshot() is handed: "copy" is a structure that
\* shares no object with the poller's snapshot, "ref" the snapshot object
\* itself.  JSON.parse(JSON.stringify(snapshot)) builds new objects all the
\* way down and keeps every value a snapshot holds (finite numbers, strings,
\* booleans, null; a key holding undefined is dropped and reads back as
\* undefined).
getSnapshot_ByReference == [kind |-> "ref", value |-> Null]

getSnapshot == [kind |-> "copy", value |-> snapshot]

\* What the reader sees when it looks at what it was handed.
HeldView == IF held.snap.kind = "ref" THEN snapshot ELSE held.snap.value

\* A reader (the HTTP handler or the collector) calls getSnapshot(); the
\* server listens only after startPolling.  completedAtRead and cycleAtRead
\* are history fields.
GetSnapshot ==
    /\ loopPc # "boot"
    /\ held = NoSnapshot
    /\ held' = [snap |-> getSnapshot, completedAtRead |-> completed, cycleAtRead |-> cycleNo]
    /\ UNCHANGED << serverVars, faultable, snapshot, running, isPolling, loopPc, rt, prev, hrLocal, client, now,
                    timerDue, budget, plant, cycleNo, completed, lastTick, skips, probe >>

\* The reader changes the object it was handed (here: its PMS error text).
ReaderEdits ==
    /\ held # NoSnapshot
    /\ HeldView.devices["pms"].comm.last_error # Str("edited by reader")
    /\ IF held.snap.kind = "ref"
       THEN /\ snapshot' = [snapshot EXCEPT
                              !.devices["pms"].comm.last_error = Str("edited by reader")]
            /\ held' = held
       ELSE /\ held' = [held EXCEPT
                          !.snap.value.devices["pms"].comm.last_error = Str("edited by reader")]
            /\ snapshot' = snapshot
    /\ UNCHANGED << serverVars, faultable, running, isPolling, loopPc, rt, prev, hrLocal, client, now,
                    timerDue, budget, plant, cycleNo, completed, lastTick, skips, probe >>

\* The poller as the reader's environment: a reader is followed to the end
\* of the poll cycle it overlaps (the next tick is not taken while it holds
\* its snapshot).
ReaderTimerFires == held = NoSnapshot /\ TimerFires

ReaderNext ==
    \/ Main
    \/ ReaderTimerFires
    \/ \E d \in ModbusKeys : ConnectOk(d)
    \/ PmsReadHROk
    \/ PmsReadIROk
    \/ \E d \in PcsKeys \cup BmsKeys : ReadIROk(d)
    \/ \E d \in ModbusKeys, err \in ReadErrors : ReadFail(d, err)
    \/ FetchOk
    \/ GetSnapshot
    \/ ReaderEdits

\* The readers run against disturbances of the PMS, the one device
\* whose routine changes its slot in place.
InitReader == InitWith({"pms"}, NoProbe)

SpecReader == InitReader /\ [][ReaderNext]_vars

(***************************************************************************)
(* The power codec applied to inputs (modbus_client.js; server.js          *)
(* POST /api/pms/demand encodes, then decodes what it encoded)             *)
(***************************************************************************)
\* Register values: all of them.
RawInputs == 0 .. 65535

\* Powers in hundredths of kW: windows around zero and around the two ends
\* of the encoder's range.  A decimal ending in 5 hundredths is a double only
\* when it is a multiple of 0.25; the others are no ties for Math.round and
\* are left out.
KwPivots == {0, 327675, -327685}
KwInputs ==
    { h \in UNION { (p - KwWindow) .. (p + KwWindow) : p \in KwPivots } :
        h % 10 # 5 \/ h % 25 = 0 }

CodecInputs ==
    { [src |-> "raw", in |-> r, kind |-> "raw", val |-> r, steps |-> 0] : r \in RawInputs }
    \cup
    { [src |-> "kw", in |-> h, kind |-> "kw", val |-> h, steps |-> 0] : h \in KwInputs }

UnchangedPoller ==
    UNCHANGED << serverVars, snapshot, running, isPolling, loopPc, rt, prev, hrLocal,
                 client, now, timerDue, budget, faultable, plant, cycleNo, completed, lastTick, skips,
                 held >>

\* decodePowerKw applied to the register value at hand
DecodePower ==
    /\ probe.kind = "raw"
    /\ probe.steps < 2
    /\ probe' = [probe EXCEPT !.kind = "kw", !.val = decodePowerKw(probe.val),
                              !.steps = @ + 1]
    /\ UnchangedPoller

\* encodePowerKw applied to the power at hand
EncodePower ==
    /\ probe.kind = "kw"
    /\ probe.steps < 2
    /\ LET r == encodePowerKw(probe.val)
       IN probe' = IF r.ok
                   THEN [probe EXCEPT !.kind = "raw", !.val = r.value, !.steps = @ + 1]
                   ELSE [probe EXCEPT !.kind = "RangeError", !.steps = @ + 1]
    /\ UnchangedPoller

CodecNext == DecodePower \/ EncodePower

InitCodec == \E input \in CodecInputs : InitWith(DeviceKeys, input)

SpecCodec == InitCodec /\ [][CodecNext]_vars

(***************************************************************************)
(* Telemetry transform (transform.js)                                      *)
(***************************************************************************)
\* a number that is not finite (NaN, Infinity)
NaN == [t |-> "nan", v |-> 0]

\* snapshot key, record metric, unit; in the order of the object's keys
PMS_METRIC_MAP ==
    << << "demand_control_power_kw", "demand_control_power_kw", "kW" >>,
       << "total_active_power_kw",   "active_power_kw",         "kW" >>,
       << "soc_avg_pct",             "soc_pct",                 "%" >>,
       << "soh_avg_pct",             "soh_pct",                 "%" >>,
       << "capacity_total_kwh",      "capacity_kwh",            "kWh" >> >>

IsFiniteNumber_TypeofOnly(v) == v.t \in {"num", "nan"}

\* typeof v === "number" && Number.isFinite(v)
IsFiniteNumber(v) == v.t = "num"

\* slot.comm ? slot.comm.ok : true
CommOk(slot) == IF slot.comm = Null THEN TRUE ELSE slot.comm.ok

\* slot.comm ? slot.comm.last_error : dflt
CommError(slot, dflt) == IF slot.comm = Null THEN Str(dflt) ELSE slot.comm.last_error

ErrorRow(ts, device, err) ==
    [ts |-> ts, device_id |-> device, metric |-> "comm_error", value |-> Num(0),
     unit |-> Null, comm_ok |-> FALSE, raw |-> [error |-> err]]

ValueRow(ts, device, metric, v, unit) ==
    [ts |-> ts, device_id |-> device, metric |-> metric, value |-> v,
     unit |-> Str(unit), comm_ok |-> TRUE, raw |-> Null]

RECURSIVE PmsValueRows_ZeroForMissing(_, _, _)
PmsValueRows_ZeroForMissing(pms, ts, i) ==
    IF i > Len(PMS_METRIC_MAP) THEN << >>
    ELSE LET entry == PMS_METRIC_MAP[i]
             v == pms[entry[1]]
         IN << [ts |-> ts, device_id |-> "pms", metric |-> entry[2],
                value |-> IF v.t = "num" THEN v ELSE [t |-> "num", v |-> 0],
                unit |-> Str(entry[3]), comm_ok |-> TRUE, raw |-> Null] >>
            \o PmsValueRows_ZeroForMissing(pms, ts, i + 1)

\* the loop over Object.entries(PMS_METRIC_MAP), from entry i on
RECURSIVE PmsValueRows(_, _, _)
PmsValueRows(pms, ts, i) ==
    IF i > Len(PMS_METRIC_MAP) THEN << >>
    ELSE LET entry == PMS_METRIC_MAP[i]
             v == pms[entry[1]]
         IN (IF IsFiniteNumber(v)
             THEN << ValueRow(ts, "pms", entry[2], v, entry[3]) >>
             ELSE << >>) \o PmsValueRows(pms, ts, i + 1)

PmsRows_ErrorAndValues(snap, ts) ==
    LET pms == snap.devices["pms"]
    IN (IF ~(IF pms.comm = Null THEN TRUE ELSE pms.comm.ok)
        THEN << [ts |-> ts, device_id |-> "pms", metric |-> "comm_error",
                 value |-> Num(0), unit |-> Null, comm_ok |-> FALSE,
                 raw |-> [error |-> pms.comm.last_error]] >>
        ELSE << >>) \o PmsValueRows(pms, ts, 1)

PmsRows(snap, ts) ==
    IF "pms" \notin DOMAIN snap.devices THEN << >>
    ELSE LET pms == snap.devices["pms"]
         IN IF ~CommOk(pms)
            THEN << ErrorRow(ts, "pms", CommError(pms, "unknown")) >>
            ELSE PmsValueRows(pms, ts, 1)

MultimeterRows(snap, ts) ==
    IF "multimeter" \notin DOMAIN snap.devices THEN << >>
    ELSE LET mm == snap.devices["multimeter"]
             val == mm.active_power_kw
         IN IF IsFiniteNumber(val) /\ CommOk(mm)
            THEN << ValueRow(ts, "multimeter", "active_power_kw", val, "kW") >>
            ELSE << ErrorRow(ts, "multimeter", CommError(mm, "no_data")) >>

buildTelemetryRows(snap, ts) ==
    IF snap = Null THEN << >>
    ELSE PmsRows(snap, ts) \o MultimeterRows(snap, ts)

\* Inputs of the transform: snapshots whose PMS slot holds, field by field, a
\* number (zero, negative), null, nothing (the key is absent), a non-finite
\* number or a string, under a Comm Status that is ok, failed or absent, with
\* a multimeter slot under a Comm Status of its own; and no snapshot at all.
FieldValues == {Num(0), Num(-125), Null, Undefined, NaN, Str("12.5")}
CommValues ==
    {[ok |-> TRUE, last_ok_ts |-> Num(POLL_INTERVAL_MS), last_error |-> Null],
     [ok |-> FALSE, last_ok_ts |-> Null, last_error |-> Str("Timed out")], Null}

TransformSnapshots ==
    { [InitialSnapshot EXCEPT
          !.ts = Num(POLL_INTERVAL_MS),
          !.devices["pms"].demand_control_power_kw = f[1],
          !.devices["pms"].total_active_power_kw = f[2],
          !.devices["pms"].soc_avg_pct = f[3],
          !.devices["pms"].soh_avg_pct = f[4],
          !.devices["pms"].capacity_total_kwh = f[5],
          !.devices["pms"].comm = c,
          !.devices["multimeter"].active_power_kw = f[1],
          !.devices["multimeter"].comm = m] :
        f \in [1 .. Len(PMS_METRIC_MAP) -> FieldValues], c \in CommValues,
        m \in CommValues }
    \cup {Null}

TransformInputs ==
    { [fn |-> "buildTelemetryRows", snapshot |-> sn, ts |-> Num(POLL_INTERVAL_MS + 1),
       built |-> FALSE, rows |-> << >>] : sn \in TransformSnapshots }

\* collectTick's call: rows = buildTelemetryRows(snap, ts)
BuildTelemetryRows ==
    /\ probe.fn = "buildTelemetryRows"
    /\ ~probe.built
    /\ probe' = [probe EXCEPT !.built = TRUE,
                              !.rows = buildTelemetryRows(probe.snapshot, probe.ts)]
    /\ UnchangedPoller

TransformNext == BuildTelemetryRows

InitTransform == \E input \in TransformInputs : InitWith(DeviceKeys, input)

SpecTransform == InitTransform /\ [][TransformNext]_vars

(***************************************************************************)
(* Telemetry collector (server.js collectTick, db.js insertTelemetryBatch) *)
(***************************************************************************)
insertTelemetryBatch_PerRow(rows) == [i \in 1 .. Len(rows) |-> << rows[i] >>]

\* The pool.query calls one insertTelemetryBatch(rows) issues, each given by
\* the rows it carries: none for no rows, else one INSERT with all of them.
insertTelemetryBatch(rows) == IF Len(rows) = 0 THEN << >> ELSE << rows >>

InFlightAfterTick_NoFinally(calls) == TRUE

\* collectInFlight when collectTick returns to the event loop: still set
\* while the tick is suspended at its await, cleared by `finally` otherwise.
InFlightAfterTick(calls) == Len(calls) > 0

\* !snap || !snap.ts is false
HasData_Always(snap) == TRUE

HasData(snap) == snap # Null /\ snap.ts \notin {Null, Undefined}

\* One firing of the collector's setInterval: collectTick() runs to its
\* first await (the pool.query of the batch) or to its end.  The interval is
\* set by the environment; when a tick falls relative to the poll cycles is
\* not constrained.
CollectTick ==
    /\ loopPc # "boot"
    /\ collector.ticks < MaxCollectTicks
    /\ IF collectInFlight
       THEN /\ collector' = [collector EXCEPT !.ticks = @ + 1]
            /\ UNCHANGED << collectInFlight, poolQueries >>
       ELSE LET snap == getSnapshot.value
                ts == Num(now)
                rows == IF HasData(snap) THEN buildTelemetryRows(snap, ts) ELSE << >>
                calls == IF Len(rows) > 0 THEN insertTelemetryBatch(rows) ELSE << >>
            IN /\ poolQueries' = poolQueries \o
                     [i \in 1 .. Len(calls) |->
                         [tick |-> collector.ticks + 1, rows |-> calls[i], failed |-> FALSE]]
               /\ collectInFlight' = InFlightAfterTick(calls)
               /\ collector' = [ticks |-> collector.ticks + 1,
                                rows |-> IF Len(calls) > 0 THEN rows ELSE << >>]
    /\ UNCHANGED << faultable, snapshot, running, isPolling, loopPc, rt, prev, hrLocal,
                    client, now, timerDue, budget, plant, cycleNo, completed, lastTick,
                    skips, held, writerVars, probe >>

\* pool.query resolved: the log line, then finally
InsertOk ==
    /\ collectInFlight
    /\ collectInFlight' = FALSE
    /\ collector' = [collector EXCEPT !.rows = << >>]
    /\ UNCHANGED << faultable, snapshot, running, isPolling, loopPc, rt, prev, hrLocal,
                    client, now, timerDue, budget, plant, cycleNo, completed, lastTick,
                    skips, held, poolQueries, writerVars, probe >>

\* pool.query rejected: catch (the error is logged), then finally.  The rows
\* of the tick are dropped.
InsertFail ==
    /\ collectInFlight
    /\ Len(poolQueries) > 0
    /\ collectInFlight' = FALSE
    /\ collector' = [collector EXCEPT !.rows = << >>]
    /\ poolQueries' = [poolQueries EXCEPT ![Len(poolQueries)].failed = TRUE]
    /\ UNCHANGED << faultable, snapshot, running, isPolling, loopPc, rt, prev, hrLocal,
                    client, now, timerDue, budget, plant, cycleNo, completed, lastTick,
                    skips, held, writerVars, probe >>

CollectorNext ==
    \/ Main
    \/ TimerFires
    \/ PmsReadHROk
    \/ PmsReadIROk
    \/ \E d \in PcsKeys \cup BmsKeys : ReadIROk(d)
    \/ FetchOk
    \/ CollectTick
    \/ InsertOk
    \/ InsertFail

\* The collector runs against the poller with all devices answering: the
\* disturbances here are those of the persistence calls.
InitCollector == InitWith({}, NoProbe)

SpecCollector == InitCollector /\ [][CollectorNext]_vars

\* ---------------------------------------------------------------------------
\* The control write: POST /api/pms/demand (server.js).  Physical quantities
\* are hundredths of a kW, as in the codec.
\* ---------------------------------------------------------------------------
POWER_MIN_KW == -327680
POWER_MAX_KW == 327670

\* The strings the requests of this model carry, with what parseFloat makes
\* of each: the longest prefix that reads as a decimal number, NaN without one.
NumericPrefix(s) ==
    CASE s = "12.34" -> Num(1234)
      [] s = "12abc" -> Num(1200)
      [] OTHER -> NaN

parseFloat(x) ==
    CASE x.t = "num" -> x
      [] x.t = "str" -> NumericPrefix(x.v)
      [] OTHER -> NaN

\* The range test of the handler
KwInRange(kw) == ~(kw < POWER_MIN_KW \/ kw > POWER_MAX_KW)

\* Request bodies: the field absent, strings (one of them a number that is
\* not a multiple of the resolution) and the first tenth above the range.
Bodies ==
    {Undefined, Str("abc"), Str("12abc"), Str("12.34"), Num(POWER_MAX_KW + 10)}

WriteErrors == {"Timed out"}

\* res.status(400).json(...): the handler returns before its first await.
Reject(w, msg) ==
    /\ reply' = [NoReply EXCEPT !.req = w.req, !.body = w.body, !.status = 400,
                                !.error = Str(msg)]
    /\ wr' = [w EXCEPT !.pc = "idle"]

\* The record the catch block leaves: the fields of the previous record with
\* error and ts replaced.  valueOf and outcomeOf are history: the request that
\* set kw and raw, and the one that set ts and error.
CommandAfterError(cmd, w, msg, t) ==
    [cmd EXCEPT !.error = Str(msg), !.ts = Num(t), !.outcomeOf = w.req]

\* The catch block: record the error, answer 500.
Catch(w, msg) ==
    /\ lastCommand' = CommandAfterError(lastCommand, w, msg, now)
    /\ reply' = [NoReply EXCEPT !.req = w.req, !.body = w.body, !.kw = w.kw, !.status = 500,
                                !.error = Str(msg), !.connects = w.connects,
                                !.writes = w.writes]
    /\ wr' = [w EXCEPT !.pc = "idle"]

\* What the handler answers as written_kw
writtenKw_Requested(kw, rawU16) == kw
writtenKw(kw, rawU16) == ToFixed1(decodePowerKw(rawU16))

\* A request arrives; the handler runs to its first await.  The server
\* listens once polling has started.
PostDemand(body) ==
    /\ loopPc # "boot"
    /\ wr.pc = "idle"
    /\ wr.req < MaxWrites
    /\ LET w == [IdleHandler EXCEPT !.req = wr.req + 1, !.body = body]
           kw == parseFloat(body)
       IN IF body \in {Undefined, Null}
          THEN Reject(w, "Missing demand_control_power_kw")
               /\ UNCHANGED << lastCommand, client >>
          ELSE IF kw = NaN
          THEN Reject(w, "demand_control_power_kw must be a number")
               /\ UNCHANGED << lastCommand, client >>
          ELSE IF ~KwInRange(kw.v)
          THEN Reject(w, "demand_control_power_kw must be between -3276.8 and 3276.7")
               /\ UNCHANGED << lastCommand, client >>
          ELSE LET enc == encodePowerKw(kw.v)
                   w2 == [w EXCEPT !.raw = enc.value, !.kw = kw]
               IN IF ~enc.ok
                  THEN Catch(w2, "RangeError") /\ UNCHANGED client
                  ELSE IF isConnected(client["pms"])
                  THEN /\ wr' = [w2 EXCEPT !.pc = "write", !.writes = 1]
                       /\ UNCHANGED << lastCommand, reply, client >>
                  ELSE /\ wr' = [w2 EXCEPT !.pc = "connect", !.connects = 1]
                       /\ client' = [client EXCEPT !["pms"] = ConnectBegin(client["pms"])]
                       /\ UNCHANGED << lastCommand, reply >>
    /\ UNCHANGED << collectorVars, deviceHR0, snapshot, running, isPolling, loopPc, rt, prev,
                    hrLocal, now, timerDue, budget, faultable, plant, cycleNo, completed,
                    lastTick, skips, held, probe >>

\* The handler's connect() resolved: writeHR is issued.
WrConnectOk ==
    /\ wr.pc = "connect"
    /\ client' = [client EXCEPT !["pms"] = ConnectSucceeded(client["pms"])]
    /\ wr' = [wr EXCEPT !.pc = "write", !.writes = 1]
    /\ UNCHANGED << collectorVars, lastCommand, reply, deviceHR0, snapshot, running, isPolling,
                    loopPc, rt, prev, hrLocal, now, timerDue, budget, faultable, plant, cycleNo,
                    completed, lastTick, skips, held, probe >>

\* The handler's connect() rejected.
WrConnectFail(err) ==
    /\ wr.pc = "connect"
    /\ "pms" \in faultable
    /\ client' = [client EXCEPT !["pms"] = ConnectFailed(client["pms"])]
    /\ Catch(wr, err)
    /\ UNCHANGED << collectorVars, deviceHR0, snapshot, running, isPolling, loopPc, rt, prev,
                    hrLocal, now, timerDue, budget, faultable, plant, cycleNo, completed,
                    lastTick, skips, held, probe >>

\* writeRegister answered: the device holds the value; the handler records
\* the command and answers 200.
WriteOk ==
    /\ wr.pc = "write"
    /\ LET kw == writtenKw(wr.kw.v, wr.raw)
       IN /\ deviceHR0' = [value |-> Num(wr.raw), seq |-> deviceHR0.seq + 1]
          /\ lastCommand' = [kw |-> Num(kw), raw |-> Num(wr.raw), ts |-> Num(now),
                             error |-> Null, valueOf |-> wr.req, outcomeOf |-> wr.req]
          /\ reply' = [NoReply EXCEPT !.req = wr.req, !.body = wr.body, !.kw = wr.kw,
                                      !.status = 200,
                                      !.written_raw = Num(wr.raw), !.written_kw = Num(kw),
                                      !.connects = wr.connects, !.writes = wr.writes]
    /\ wr' = [wr EXCEPT !.pc = "idle"]
    /\ UNCHANGED << collectorVars, client, snapshot, running, isPolling, loopPc, rt, prev,
                    hrLocal, now, timerDue, budget, faultable, plant, cycleNo, completed,
                    lastTick, skips, held, probe >>

\* writeRegister rejected; whether the device took the value before the
\* answer was lost is not known to the handler.
WriteFail(err, applied) ==
    /\ wr.pc = "write"
    /\ deviceHR0' = IF applied THEN [value |-> Num(wr.raw), seq |-> deviceHR0.seq + 1]
                    ELSE deviceHR0
    /\ Catch(wr, err)
    /\ UNCHANGED << collectorVars, client, snapshot, running, isPolling, loopPc, rt, prev,
                    hrLocal, now, timerDue, budget, faultable, plant, cycleNo, completed,
                    lastTick, skips, held, probe >>

WriterNext ==
    \/ Main
    \/ TimerFires
    \/ ConnectOk("pms")
    \/ PmsReadHROk
    \/ PmsReadIROk
    \/ \E d \in PcsKeys \cup BmsKeys : ReadIROk(d)
    \/ FetchOk
    \/ \E body \in Bodies : PostDemand(body)
    \/ WrConnectOk
    \/ \E err \in ConnectErrors : WrConnectFail(err)
    \/ WriteOk
    \/ \E err \in WriteErrors, applied \in BOOLEAN : WriteFail(err, applied)

InitWriter ==
    /\ InitWith({"pms"}, NoProbe)

SpecWriter == InitWriter /\ [][WriterNext]_vars

\* ---------------------------------------------------------------------------
\* One ModbusClient on its own, its methods called one after another
\* (modbus_client.js).  probe holds the client (c), the sessions the transport
\* has open towards the device, the call in progress and, as history, the
\* client before the last call (pre), the connects that call started and how
\* it ended.
\* ---------------------------------------------------------------------------
NewClient == [connected |-> FALSE, isOpen |-> FALSE]

ClientProbe ==
    [fn |-> "client", pc |-> "idle", c |-> NewClient, sessions |-> 0, calls |-> 0,
     via |-> "none", connects |-> 0, pre |-> NewClient, outcome |-> "none", err |-> "none"]

\* connect() up to its await: close() ends the session of a client whose
\* flag is set, then connectTCP is issued.
ConnectIssued(via) ==
    LET c == probe.c
        begun == ConnectBegin(c)
    IN probe' = [probe EXCEPT !.pc = "connecting", !.c = begun,
                              !.sessions = IF begun.isOpen THEN @ ELSE 0,
                              !.calls = @ + 1, !.via = via, !.connects = 1,
                              !.pre = c, !.outcome = "pending", !.err = "none"]

\* connect() called on the client
ClientConnect ==
    /\ probe.pc = "idle"
    /\ probe.calls < MaxClientCalls
    /\ ConnectIssued("connect")
    /\ UnchangedPoller

\* ensureConnection() called on the client
ClientEnsure ==
    /\ probe.pc = "idle"
    /\ probe.calls < MaxClientCalls
    /\ IF isConnected(probe.c)
       THEN probe' = [probe EXCEPT !.calls = @ + 1, !.via = "ensure", !.connects = 0,
                                   !.pre = probe.c, !.outcome = "ok", !.err = "none"]
       ELSE ConnectIssued("ensure")
    /\ UnchangedPoller

\* connectTCP resolved
ClientConnectOk ==
    /\ probe.pc = "connecting"
    /\ probe' = [probe EXCEPT !.pc = "idle", !.c = ConnectSucceeded(probe.c),
                              !.sessions = @ + 1, !.outcome = "ok"]
    /\ UnchangedPoller

\* connectTCP rejected: the catch clears the flag and rethrows
ClientConnectFail(e) ==
    /\ probe.pc = "connecting"
    /\ probe' = [probe EXCEPT !.pc = "idle", !.c = ConnectFailed(probe.c),
                              !.outcome = "error", !.err = e]
    /\ UnchangedPoller

\* readHR / readIR called on the client: the request is issued
ClientRead ==
    /\ probe.pc = "idle"
    /\ probe.calls < MaxClientCalls
    /\ probe' = [probe EXCEPT !.pc = "reading", !.calls = @ + 1, !.via = "read",
                              !.connects = 0, !.pre = probe.c, !.outcome = "pending",
                              !.err = "none"]
    /\ UnchangedPoller

\* The read was answered over the open session.
ClientReadOk ==
    /\ probe.pc = "reading"
    /\ probe.c.isOpen
    /\ probe' = [probe EXCEPT !.pc = "idle", !.outcome = "ok"]
    /\ UnchangedPoller

\* The read was rejected: no answer in time, or no open port to send on.
ClientReadFail(e) ==
    /\ probe.pc = "reading"
    /\ (e = "Port Not Open") = ~probe.c.isOpen
    /\ probe' = [probe EXCEPT !.pc = "idle", !.outcome = "error", !.err = e]
    /\ UnchangedPoller

\* The device or the network drops the session; the client is not told.
ClientSessionDrops ==
    /\ probe.pc \in {"idle", "reading"}
    /\ probe.c.isOpen
    /\ probe' = [probe EXCEPT !.c.isOpen = FALSE, !.sessions = 0]
    /\ UnchangedPoller

ClientNext ==
    \/ ClientConnect
    \/ ClientEnsure
    \/ ClientConnectOk
    \/ \E e \in ConnectErrors \cup {"Timed out"} : ClientConnectFail(e)
    \/ ClientRead
    \/ ClientReadOk
    \/ \E e \in ReadErrors : ClientReadFail(e)
    \/ ClientSessionDrops

InitClient == InitWith({}, ClientProbe)

SpecClient == InitClient /\ [][ClientNext]_vars

(***************************************************************************)
(* Properties of the poll scheduler and the poll routines                  *)
(***************************************************************************)
Ticks == cycleNo + skips
Slot(d) == snapshot.devices[d]
\* a slot without its Comm Status: unit_id, decoded and raw values, metadata
DataOf(slot) == [slot EXCEPT !.comm = Null]
Fresh(d) == Slot(d).gen = [hr |-> cycleNo, ir |-> cycleNo]

\* C1: at most one poll cycle is in flight: whenever a cycle starts, every
\* earlier cycle has completed and no routine of an earlier cycle is pending;
\* and a routine is pending only while the loop awaits the one cycle in flight.
C1_OneCycleInFlight ==
    [][ /\ (cycleNo' # cycleNo =>
              /\ cycleNo' = cycleNo + 1
              /\ completed = cycleNo
              /\ \A d \in DeviceKeys : ~Pending(rt[d]))
        /\ ((\E d \in DeviceKeys : Pending(rt'[d])) =>
              isPolling' /\ loopPc' = "cycle" /\ completed' = cycleNo' - 1) ]_vars

\* C1 witness: the second cycle is in flight, started after a first cycle
\* that outlasted the polling interval.
C1_Witness ==
    /\ cycleNo = 2 /\ completed = 1
    /\ now > POLL_INTERVAL_MS
    /\ \E d \in DeviceKeys : Pending(rt[d])

\* C2: the snapshot timestamp changes only in the step that ends a cycle:
\* before it some routine was still running, after it all six routines have
\* ended (done or failed), and the new timestamp is the time of that step.
C2_TimestampOnlyAtCycleEnd ==
    [][ snapshot'.ts # snapshot.ts =>
          /\ \E d \in DeviceKeys : Pending(rt[d])
          /\ \A d \in DeviceKeys : rt'[d] \in {"done", "failed"}
          /\ completed' = completed + 1
          /\ snapshot'.ts = Num(now) ]_vars

\* C2 witness: a cycle was stamped in which one routine failed and another
\* succeeded.
C2_Witness ==
    /\ IsNum(snapshot.ts)
    /\ completed = cycleNo
    /\ \E d, e \in DeviceKeys : rt[d] = "failed" /\ rt[e] = "done"

\* C3: a routine that fails (its catch block runs) leaves unit_id, every
\* decoded value, every raw value and the metadata of its slot as they were;
\* only the Comm Status may differ: it says ok = false and carries the error.
C3_FailureKeepsData ==
    [][ \A d \in DeviceKeys :
          (rt'[d] = "failed" /\ Pending(rt[d])) =>
              /\ DataOf(snapshot'.devices[d]) = DataOf(snapshot.devices[d])
              /\ snapshot'.devices[d].comm.ok = FALSE
              /\ snapshot'.devices[d].comm.last_error.t = "str" ]_vars

\* C3 witness: the PMS routine failed at its second read (the holding
\* register read of this cycle had succeeded) over data of an earlier success.
C3_Witness ==
    /\ rt["pms"] = "failed"
    /\ hrLocal.gen = cycleNo
    /\ IsNum(Slot("pms").demand_control_power_kw)
    /\ Slot("pms").gen.ir < cycleNo
    /\ ~Slot("pms").comm.ok

\* C4 as claimed: every device (the multimeter included) whose routine got
\* its answers in this cycle holds the fresh data with Comm Status ok = true.
C4_EveryDeviceFreshAndOk ==
    \A d \in DeviceKeys : rt[d] = "done" => Fresh(d) /\ Slot(d).comm.ok

\* C4 amended: every Modbus device whose reads succeeded in this cycle holds
\* the data of this cycle's reads with Comm Status ok = true and the time of
\* the write, whatever the other routines did; the multimeter whose request
\* succeeded holds the bridge's fresh data, with the Comm Status the bridge
\* reported ("no data from bridge", ok = false, when it reported none).
C4_IsolationPerDevice ==
    /\ \A d \in ModbusKeys : rt[d] = "done" =>
          /\ Fresh(d)
          /\ Slot(d).comm.ok
          /\ Slot(d).comm.last_error = Null
          /\ IsNum(Slot(d).comm.last_ok_ts)
          /\ Slot(d).comm.last_ok_ts.v >= lastTick
    /\ rt["multimeter"] = "done" =>
          /\ Fresh("multimeter")
          /\ Slot("multimeter").active_power_raw \in
                {Num(RegValue("multimeter", "IR", 0, plant)), Null}
          /\ (Slot("multimeter").comm.ok => Slot("multimeter").comm.last_error = Null)

\* C4 witness: in one cycle a routine failed, another one is still waiting for
\* its (slow) device, and the four others have written fresh data.
C4_Witness ==
    \E d, e \in DeviceKeys :
        /\ rt[d] = "failed"
        /\ Pending(rt[e])
        /\ \A f \in DeviceKeys \ {d, e} : rt[f] = "done" /\ Fresh(f) /\ Slot(f).comm.ok

\* C7 as claimed: ticks fire on the fixed cadence whatever the cycle takes:
\* each tick (a pass of the loop, starting a cycle or skipping) comes exactly
\* one polling interval after the tick before it.
C7_TicksOnFixedCadence ==
    [][ (Ticks' # Ticks /\ Ticks > 0) => lastTick' = lastTick + POLL_INTERVAL_MS ]_vars

(***************************************************************************)
(* Properties of the snapshot readers                                      *)
(***************************************************************************)
\* C5 as claimed: a snapshot handed to a reader holds only slot values
\* written by cycles that had completed when it was taken; nothing written
\* by the cycle in flight is in it.
C5_OnlyCompletedCyclesVisible ==
    held # NoSnapshot =>
        \A d \in DeviceKeys :
            /\ HeldView.devices[d].gen.hr <= held.completedAtRead
            /\ HeldView.devices[d].gen.ir <= held.completedAtRead

\* C5 amended: a snapshot handed to a reader holds only whole slots: the
\* values of each slot all come from the reads of one run of the device's
\* routine, never from half of a write.  Slots already written by the cycle
\* in flight are in it next to slots of earlier cycles, and its timestamp is
\* the one of the last completed cycle (null before the first has completed).
C5_OnlyWholeSlotsVisible ==
    held # NoSnapshot =>
        /\ \A d \in DeviceKeys :
              /\ HeldView.devices[d].gen.hr = HeldView.devices[d].gen.ir
              /\ HeldView.devices[d].gen.ir <= held.cycleAtRead
        /\ (HeldView.ts = Null) = (held.completedAtRead = 0)
        /\ held.completedAtRead > 0 => IsNum(HeldView.ts)

\* C5 witness: a snapshot taken during the second cycle, between the two
\* reads of the PMS routine: it holds a slot written by the cycle in flight,
\* the PMS slot of the first cycle and the first cycle's timestamp.
C5_Witness ==
    /\ held # NoSnapshot
    /\ held.cycleAtRead = 2 /\ held.completedAtRead = 1
    /\ hrLocal.gen = 2
    /\ HeldView.devices["pms"].gen = [hr |-> 1, ir |-> 1]
    /\ \E d \in DeviceKeys : HeldView.devices[d].gen.ir = 2
    /\ IsNum(HeldView.ts)

\* C6: what getSnapshot returned is independent of the poller's snapshot:
\* no step of the poller (slot write, change of a Comm Status in place,
\* timestamp) changes what the reader sees in it, and no step of the reader
\* (taking the snapshot, editing it) changes the poller's snapshot.
C6_IndependentCopy ==
    [][ /\ (held # NoSnapshot /\ snapshot' # snapshot) => HeldView' = HeldView
        /\ (held' # held \/ HeldView' # HeldView) => snapshot' = snapshot ]_vars

\* C6 witness: after the reader took its snapshot and edited it, the PMS
\* routine failed and changed the Comm Status of its slot in place, and the
\* cycle was stamped; the reader still sees ok = true and the old timestamp.
C6_Witness ==
    /\ held # NoSnapshot
    /\ HeldView.devices["pms"].comm.ok
    /\ HeldView.devices["pms"].comm.last_error = Str("edited by reader")
    /\ ~snapshot.devices["pms"].comm.ok
    /\ snapshot.devices["pms"].comm.last_error \in { Str(e) : e \in ReadErrors }
    /\ snapshot.devices["pms"].gen = HeldView.devices["pms"].gen
    /\ snapshot.ts # HeldView.ts

(***************************************************************************)
(* Properties of the power codec                                           *)
(***************************************************************************)
\* C8: decoding and encoding are inverses.  Every register value 0..65535
\* decodes to a power that encodes back to it, and the values from 32768 on
\* decode to the negative power of (value - 65536) tenths of a kW.  Every
\* power the encoder accepts decodes back to the nearest tenth of a kW (a
\* power halfway between two tenths goes to the upper one).
C8_CodecInverses ==
    /\ (probe.src = "raw" /\ probe.steps >= 1) =>
          /\ probe.steps = 1 =>
                /\ probe.kind = "kw"
                /\ probe.val = (IF probe.in >= 32768 THEN probe.in - 65536 ELSE probe.in) * 10
                /\ probe.in >= 32768 => probe.val < 0
          /\ probe.steps = 2 => probe.kind = "raw" /\ probe.val = probe.in
    /\ (probe.src = "kw" /\ probe.steps = 2) =>
          /\ probe.kind = "kw"
          /\ probe.val % 10 = 0
          /\ probe.val - probe.in \in -4 .. 5

\* C8 witness: the round trip at the sign boundary: the register value 32768
\* was decoded (to -3276.8 kW) and the result encoded, giving 32768 again.
C8_Witness ==
    probe = [src |-> "raw", in |-> 32768, kind |-> "raw", val |-> 32768, steps |-> 2]

\* C9: encodePowerKw throws its RangeError exactly for the powers that round
\* to more than 32767 or less than -32768 tenths of a kW: 3276.8 and -3276.9
\* are refused, 3276.7 and -3276.8 are accepted (as 32767 and 32768), and an
\* accepted power gives its tenths modulo 65536, a value in 0..65535.
C9_RangeErrorExactlyOutside ==
    (probe.src = "kw" /\ probe.steps = 1) =>
        /\ (probe.kind = "RangeError") = (probe.in >= 327675 \/ probe.in < -327685)
        /\ probe.in \in {327680, -327690} => probe.kind = "RangeError"
        /\ probe.in = 327670 => probe.kind = "raw" /\ probe.val = 32767
        /\ probe.in = -327680 => probe.kind = "raw" /\ probe.val = 32768
        /\ probe.kind # "RangeError" =>
              /\ probe.kind = "raw"
              /\ probe.val \in 0 .. 65535
              /\ \E t \in {probe.val, probe.val - 65536} :
                    /\ t \in POWER_MIN_RAW .. POWER_MAX_RAW
                    /\ t * 10 - probe.in \in -4 .. 5

\* C9 witness: the encoder refused -3276.9 kW.
C9_Witness ==
    probe = [src |-> "kw", in |-> -327690, kind |-> "RangeError", val |-> -327690,
             steps |-> 1]

(***************************************************************************)
(* Properties of the telemetry transform                                   *)
(***************************************************************************)
RowsOf(device) == SelectSeq(probe.rows, LAMBDA r : r.device_id = device)
\* position of a record metric in the stated order of the records
C10_Order ==
    << "demand_control_power_kw", "active_power_kw", "soc_pct", "soh_pct", "capacity_kwh" >>
C10_Pos(metric) == CHOOSE k \in 1 .. Len(C10_Order) : C10_Order[k] = metric

\* C10: for a PMS slot whose Comm Status is ok the transform yields exactly
\* one record per mapped field that holds a finite number and none for the
\* other fields, in the order demand_control_power_kw, active_power_kw,
\* soc_pct, soh_pct, capacity_kwh; each record carries the collection
\* timestamp, device_id "pms", the renamed metric, the field's value
\* unchanged, the table's unit, comm_ok = true and a null raw payload.
C10_PmsRowsPerFiniteField ==
    (/\ probe.fn = "buildTelemetryRows" /\ probe.built
     /\ probe.snapshot # Null
     /\ probe.snapshot.devices["pms"].comm # Null
     /\ probe.snapshot.devices["pms"].comm.ok) =>
        LET pms == probe.snapshot.devices["pms"]
            rows == RowsOf("pms")
        IN /\ \A k \in 1 .. Len(PMS_METRIC_MAP) :
                 LET hits == { i \in 1 .. Len(rows) : rows[i].metric = C10_Order[k] }
                 IN IF pms[PMS_METRIC_MAP[k][1]].t = "num"
                    THEN /\ Cardinality(hits) = 1
                         /\ \A i \in hits :
                               rows[i] = [ts |-> probe.ts, device_id |-> "pms",
                                          metric |-> C10_Order[k],
                                          value |-> pms[PMS_METRIC_MAP[k][1]],
                                          unit |-> Str(PMS_METRIC_MAP[k][3]),
                                          comm_ok |-> TRUE, raw |-> Null]
                    ELSE hits = {}
           /\ \A i \in 1 .. Len(rows) : rows[i].metric \in { C10_Order[k] : k \in 1 .. Len(C10_Order) }
           /\ \A i, j \in 1 .. Len(rows) :
                 i < j => C10_Pos(rows[i].metric) < C10_Pos(rows[j].metric)

\* C10 witness: rows were built from an ok PMS slot with a zero, a negative
\* number, a null, a non-finite number and a string: two records came out,
\* demand_control_power_kw = 0 before soc_pct = -1.25.
C10_Witness ==
    /\ probe.fn = "buildTelemetryRows" /\ probe.built
    /\ probe.snapshot # Null
    /\ probe.snapshot.devices["pms"].comm # Null
    /\ probe.snapshot.devices["pms"].comm.ok
    /\ probe.snapshot.devices["pms"].demand_control_power_kw = Num(0)
    /\ probe.snapshot.devices["pms"].total_active_power_kw = NaN
    /\ probe.snapshot.devices["pms"].soc_avg_pct = Num(-125)
    /\ probe.snapshot.devices["pms"].soh_avg_pct = Null
    /\ probe.snapshot.devices["pms"].capacity_total_kwh = Str("12.5")
    /\ Len(RowsOf("pms")) = 2
    /\ RowsOf("pms")[1].metric = "demand_control_power_kw"
    /\ RowsOf("pms")[2].metric = "soc_pct"

ProjectedDevices == {"pms", "multimeter"}
Built == probe.fn = "buildTelemetryRows" /\ probe.built /\ probe.snapshot # Null
InputSlot(device) == probe.snapshot.devices[device]
CommIsOk(device) == InputSlot(device).comm # Null /\ InputSlot(device).comm.ok
CommIsFailed(device) == InputSlot(device).comm # Null /\ ~InputSlot(device).comm.ok
SentinelRow(device) ==
    [ts |-> probe.ts, device_id |-> device, metric |-> "comm_error", value |-> Num(0),
     unit |-> Null, comm_ok |-> FALSE, raw |-> [error |-> InputSlot(device).comm.last_error]]

\* C11: for a projected device (PMS, multimeter) whose Comm Status is failed
\* the transform yields exactly one record of that device: metric comm_error,
\* value 0, unit null, comm_ok false, the slot's last error as raw payload;
\* and no per-metric record, whatever values the slot still holds.
C11_FailedDeviceOneSentinel ==
    Built => \A device \in ProjectedDevices :
                CommIsFailed(device) => RowsOf(device) = << SentinelRow(device) >>

\* C11 witness: rows were built from a snapshot whose PMS and multimeter
\* slots both failed while still holding finite numbers in every field.
C11_Witness ==
    /\ Built
    /\ CommIsFailed("pms") /\ CommIsFailed("multimeter")
    /\ \A k \in 1 .. Len(PMS_METRIC_MAP) : InputSlot("pms")[PMS_METRIC_MAP[k][1]].t = "num"
    /\ InputSlot("multimeter").active_power_kw = Num(-125)
    /\ Len(probe.rows) = 2
    /\ probe.rows[1].raw = [error |-> Str("Timed out")]

NewQueries == Len(poolQueries') - Len(poolQueries)
CollectorStep ==
    collectInFlight' # collectInFlight \/ collector' # collector \/ poolQueries' # poolQueries

\* C13: a collection tick issues at most one persistence call; the call
\* carries the whole batch built from the snapshot copy the tick took, and no
\* call is issued outside a tick, by a skipped tick, by a tick that found no
\* data, or for an empty batch.
C13_OneBatchPerTick ==
    [][ /\ NewQueries \in {0, 1}
        /\ NewQueries = 1 =>
              /\ collector'.ticks = collector.ticks + 1
              /\ ~collectInFlight
              /\ snapshot.ts # Null
              /\ poolQueries'[Len(poolQueries')].tick = collector'.ticks
              /\ poolQueries'[Len(poolQueries')].rows = buildTelemetryRows(snapshot, Num(now))
              /\ poolQueries'[Len(poolQueries')].rows # << >>
        /\ (collector'.ticks = collector.ticks \/ collectInFlight \/ snapshot.ts = Null)
              => NewQueries = 0 ]_vars

\* C13 witness: the first tick found no data and made no call, the second
\* one made the one call of the run, with the five PMS records and the
\* multimeter's.
C13_Witness ==
    /\ collector.ticks = 2
    /\ Len(poolQueries) = 1
    /\ poolQueries[1].tick = 2
    /\ Len(poolQueries[1].rows) = 6

\* C14: no step of the collector (a tick, the success or the failure of its
\* persistence call, however late) changes any state of the polling engine:
\* snapshot, loop flags, timer, routines, clients; and the collector's
\* in-flight guard is set only while a persistence call is pending: it is
\* clear after a tick that returned early, that was skipped, and after the
\* call succeeded or failed.
C14_PersistenceNeverTouchesPolling ==
    [][ /\ CollectorStep =>
              UNCHANGED << snapshot, running, isPolling, loopPc, rt, prev, hrLocal, client,
                           now, timerDue, cycleNo, completed, lastTick, skips >>
        /\ collectInFlight' = (collector'.rows # << >>)
        /\ (collectInFlight /\ ~collectInFlight') => collector'.ticks = collector.ticks
        /\ (collectInFlight /\ collector'.ticks # collector.ticks) =>
              collectInFlight' /\ collector'.rows = collector.rows ]_vars

\* C14 witness: the first persistence call failed, the second tick ran and
\* its call is still pending while a later poll cycle has completed and
\* stamped the snapshot.
C14_Witness ==
    /\ Len(poolQueries) = 2
    /\ poolQueries[1].failed
    /\ collectInFlight
    /\ collector.rows[1].ts.v < snapshot.ts.v
    /\ completed = 2

\* ---------------------------------------------------------------------------
\* The command record
\* ---------------------------------------------------------------------------
\* A request has been answered and no other is in flight.
Answered == wr.pc = "idle" /\ reply.req > 0

\* C15: after every write API call (accepted, refused by validation or
\* failed on the transport) the command record describes that call only: its
\* outcome (ts, error) is that of the call just answered, and its kw and raw
\* are not those of an earlier call.
C15_CommandDescribesLastCall ==
    Answered =>
        /\ lastCommand.outcomeOf = reply.req
        /\ lastCommand.valueOf \in {0, reply.req}

\* ---------------------------------------------------------------------------
\* The written value and the value polled back
\* ---------------------------------------------------------------------------
\* The PMS slot holds the holding register as read after the last write the
\* device took: the routine's readHR of the slot's cycle saw that write.
PolledAfterWrite ==
    /\ deviceHR0.seq > 0
    /\ hrLocal.seq = deviceHR0.seq
    /\ Slot("pms").gen.hr = hrLocal.gen
    /\ Slot("pms").gen.hr > 0

\* C16: for an accepted write of kw the register takes encodePowerKw(kw), the
\* answer's written_kw is decodePowerKw of that raw value, and a PMS poll that
\* reads the register after the write, the device still holding it, stores
\* that written_kw as demand_control_power_kw.
C16_WrittenIsPolledBack ==
    (Answered /\ reply.status = 200) =>
        /\ reply.written_raw = Num(encodePowerKw(reply.kw.v).value)
        /\ reply.written_kw = Num(decodePowerKw(reply.written_raw.v))
        /\ deviceHR0.value = reply.written_raw
        /\ PolledAfterWrite =>
              /\ Slot("pms").demand_control_power_kw = reply.written_kw
              /\ Slot("pms").demand_control_power_raw = reply.written_raw

\* An accepted 12.34 kW was written as 123 and polled back as 12.3 kW.
C16_Witness ==
    /\ Answered /\ reply.status = 200
    /\ reply.kw = Num(1234)
    /\ PolledAfterWrite
    /\ Slot("pms").comm.ok
    /\ Slot("pms").demand_control_power_kw = Num(1230)

\* ---------------------------------------------------------------------------
\* Validation of the control write
\* ---------------------------------------------------------------------------
\* The strings that read as a number from end to end
NumericStrings == {"12.34"}

\* The request value is not a number.
NonNumeric(body) ==
    /\ body.t # "num"
    /\ ~(body.t = "str" /\ body.v \in NumericStrings)

\* The request value is missing, not a number, or a number outside the range.
Invalid(body) ==
    \/ body \in {Undefined, Null}
    \/ NonNumeric(body)
    \/ ~KwInRange(parseFloat(body).v)

\* C17: a control write whose value is missing, not a number or outside
\* [-3276.8, 3276.7] is answered with a validation error, and no connect and
\* no write has been issued to the PMS for it.
C17_InvalidIsRejected ==
    (Answered /\ Invalid(reply.body)) =>
        /\ reply.status = 400
        /\ reply.connects = 0
        /\ reply.writes = 0

\* ---------------------------------------------------------------------------
\* Operations in flight on a client
\* ---------------------------------------------------------------------------
\* The operation the device's poll routine awaits, if any
PollerOps(d) == IF rt[d] \in {"connect", "read", "read2"} THEN 1 ELSE 0

\* The operation the write handler awaits on the PMS client, if any
HandlerOps(d) == IF d = "pms" /\ wr.pc \in {"connect", "write"} THEN 1 ELSE 0

\* C18: no client ever has two operations (connect, readHR, readIR, writeHR)
\* in flight at once, a control write arriving during the PMS routine's
\* connect or reads included.
C18_OneOperationPerClient ==
    \A d \in ModbusKeys : PollerOps(d) + HandlerOps(d) <= 1

\* ---------------------------------------------------------------------------
\* Routines end normally
\* ---------------------------------------------------------------------------
\* C19: no poll routine ends by an exception: a routine that met a failure
\* (connect refused, timeout, closed port, request error, malformed or null
\* JSON) has ended normally with the failure recorded in its own slot, and a
\* loop that is past its cycle has stamped the snapshot for that cycle.
C19_RoutinesEndNormally ==
    /\ \A d \in DeviceKeys :
          /\ rt[d] # "threw"
          /\ rt[d] = "failed" =>
                /\ Slot(d).comm.ok = FALSE
                /\ Slot(d).comm.last_error # Null
    /\ loopPc = "sleep" =>
          /\ AllSettled(rt)
          /\ completed = cycleNo
          /\ snapshot.ts # Null
          /\ snapshot.ts.v >= lastTick

\* The bridge answered the JSON value null: the routine recorded it and
\* the cycle was stamped.
C19_Witness ==
    /\ loopPc = "sleep"
    /\ rt["multimeter"] = "failed"
    /\ Slot("multimeter").comm.last_error = Str("Bridge unreachable: " \o NullBodyError)
    /\ snapshot.ts = Num(now)

\* ---------------------------------------------------------------------------
\* Slot writes in cycle order
\* ---------------------------------------------------------------------------
\* C20: the writes to a slot are ordered by cycle: a cycle starts only when
\* no routine of the cycle before is still pending, a slot is written only
\* by its routine of the current cycle as that routine ends, and the data a
\* slot holds never goes back to an earlier cycle's.
C20_SlotWritesOrderedByCycle ==
    [][/\ cycleNo' # cycleNo => \A d \in DeviceKeys : ~Pending(rt[d])
       /\ \A d \in DeviceKeys :
             /\ Slot(d)' # Slot(d) =>
                   /\ cycleNo' = cycleNo
                   /\ Pending(rt[d])
                   /\ ~Pending(rt'[d])
             /\ Slot(d)'.gen.hr >= Slot(d).gen.hr
             /\ Slot(d)'.gen.ir >= Slot(d).gen.ir]_vars

\* Cycle 1 answered late, past the tick cycle 2 was due at; cycle 2 then
\* wrote its result over it.
C20_Witness ==
    /\ cycleNo = 2
    /\ lastTick > POLL_INTERVAL_MS
    /\ Slot("pcs1").gen.ir = 2
    /\ Slot("pcs1").comm.ok

\* ---------------------------------------------------------------------------
\* Operations are issued on a live client
\* ---------------------------------------------------------------------------
\* The step issues a read on client d / a write on the PMS client.
IssuesRead(d) == rt'[d] \in {"read", "read2"} /\ rt'[d] # rt[d]
IssuesWrite == wr'.pc = "write" /\ wr.pc # "write"

\* C21: every readHR, readIR and writeHR is issued on a client that is live
\* (flag set and transport open) at the moment it is issued, the second PMS
\* read included.
C21_OperationsIssuedLive ==
    [][/\ \A d \in ModbusKeys : IssuesRead(d) => isConnected(client'[d])
       /\ IssuesWrite => isConnected(client'["pms"])]_vars

\* ---------------------------------------------------------------------------
\* connect() and ensureConnection() of one client
\* ---------------------------------------------------------------------------
\* The last call on the client was one that ran connect(), and it has ended.
ConnectEnded == probe.pc = "idle" /\ probe.connects = 1

\* C22: connect() on a client whose flag is set closes the session before it
\* opens another, so the client never has two sessions; after a connect that
\* succeeded the flag is set; after one that failed the flag is clear and the
\* caller has the transport's error.
C22_ConnectReplacesSession ==
    probe.fn = "client" =>
        /\ probe.sessions <= 1
        /\ (probe.pc = "connecting" /\ probe.pre.connected) => probe.sessions = 0
        /\ (ConnectEnded /\ probe.outcome = "ok") => probe.c.connected
        /\ (ConnectEnded /\ probe.outcome = "error") =>
              /\ ~probe.c.connected
              /\ probe.err \in ConnectErrors \cup {"Timed out"}

\* connect() was called on a live client and succeeded: one session.
C22_Witness ==
    /\ probe.fn = "client"
    /\ ConnectEnded
    /\ probe.via = "connect"
    /\ isConnected(probe.pre)
    /\ probe.outcome = "ok"
    /\ probe.sessions = 1

\* C23: ensureConnection() starts no connect when the client is live (flag
\* set and transport open) and exactly one otherwise; a session dropped
\* without notice (flag set, transport closed) is therefore reconnected by the
\* next ensureConnection().
C23_EnsureConnectsWhenNotLive ==
    (probe.fn = "client" /\ probe.via = "ensure") =>
        probe.connects = IF probe.pre.connected /\ probe.pre.isOpen THEN 0 ELSE 1

\* A session was dropped without notice; ensureConnection() reconnected.
C23_Witness ==
    /\ probe.fn = "client"
    /\ probe.via = "ensure"
    /\ probe.pre = [connected |-> TRUE, isOpen |-> FALSE]
    /\ probe.pc = "idle"
    /\ probe.outcome = "ok"
    /\ isConnected(probe.c)

\* ---------------------------------------------------------------------------
\* A routine writes its own slot only
\* ---------------------------------------------------------------------------
\* The routine of device d ends in this step.
RoutineEnds(d) == Pending(rt[d]) /\ ~Pending(rt'[d])

\* C24: a poll routine, successful or failed, writes the slot of its own
\* device only: a step changes a slot only if that device's routine ends in
\* it, and the timestamp only if that was the cycle's last routine, after
\* which pollAll stamps it.
C24_RoutineWritesOwnSlotOnly ==
    [][/\ \A d \in DeviceKeys : Slot(d)' # Slot(d) => RoutineEnds(d)
       /\ snapshot.ts' # snapshot.ts =>
             /\ \E d \in DeviceKeys : RoutineEnds(d)
             /\ AllSettled(rt')]_vars

\* Cycle 2: pcs1 has been read anew, bms1 has failed, and pcs2, still
\* pending, holds what cycle 1 left, under cycle 1's timestamp.
C24_Witness ==
    /\ cycleNo = 2
    /\ rt["pcs1"] = "done" /\ Slot("pcs1").gen.ir = 2
    /\ rt["bms1"] = "failed"
    /\ Pending(rt["pcs2"])
    /\ Slot("pcs2") = prev["pcs2"]
    /\ Slot("pcs2").gen.ir = 1
    /\ snapshot.ts # Null

\* ---------------------------------------------------------------------------
\* Cycles complete
\* ---------------------------------------------------------------------------
\* C25: every poll cycle that starts completes and the loop goes back to
\* waiting for its timer, also when a device or the bridge takes a request
\* and never answers it.
C25_CycleCompletes == (loopPc = "cycle") ~> (loopPc = "sleep")

\* ---------------------------------------------------------------------------
\* Recovery
\* ---------------------------------------------------------------------------
\* Device d's routine failed in cycle n, and the loop has a cycle left to run.
FailedIn(d, n) == rt[d] = "failed" /\ cycleNo = n

\* Device d has been polled again after cycle n: it answered, and its slot is
\* ok with fresh data, or it failed again (it was not reachable).
PolledAgain(d, n) ==
    \/ cycleNo > n /\ Slot(d).comm.ok /\ Fresh(d)
    \/ cycleNo > n /\ rt[d] = "failed"

\* C26: a Modbus device whose routine failed, at the startup connect or in
\* a cycle, is polled again without a restart while the loop runs, and has
\* Comm Status ok with fresh data as soon as it is reachable: a failure in
\* one cycle never ends the polling of the device.
C26_FailedDeviceRecovers ==
    \A d \in ModbusKeys : \A n \in 1 .. (MaxCycles - 1) :
        FailedIn(d, n) ~> PolledAgain(d, n)

\* ---------------------------------------------------------------------------
\* The time of the last success
\* ---------------------------------------------------------------------------
\* The messages a failed routine of device d records
FailureMessages(d) ==
    IF d = "multimeter"
    THEN {Str("Bridge unreachable: " \o e) : e \in FetchErrors}
    ELSE {Str(e) : e \in ConnectErrors \cup ReadErrors}

\* C27: after a failed routine of any device (PMS, PCS, BMS, multimeter)
\* the slot's Comm Status has ok = false, last_error set to the failure's
\* message, and last_ok_ts as it was before the routine.
C27_FailureKeepsLastOk ==
    [][\A d \in DeviceKeys :
          (Pending(rt[d]) /\ rt'[d] = "failed") =>
              /\ Slot(d)'.comm.ok = FALSE
              /\ Slot(d)'.comm.last_error \in FailureMessages(d)
              /\ Slot(d)'.comm.last_ok_ts = prev[d].comm.last_ok_ts]_vars

\* pcs1 succeeded in cycle 1 and failed in cycle 2: the slot still carries
\* the time of cycle 1's success.
C27_Witness ==
    /\ cycleNo = 2
    /\ rt["pcs1"] = "failed"
    /\ ~Slot("pcs1").comm.ok
    /\ IsNum(Slot("pcs1").comm.last_ok_ts)
    /\ Slot("pcs1").gen.ir = 1

\* ---------------------------------------------------------------------------
\* Coherence of a Modbus slot
\* ---------------------------------------------------------------------------
\* The decoded values of a slot, each with its raw counterpart and the kind
\* of its decoding
Pair(dec, raw, kind) == [dec |-> dec, raw |-> raw, kind |-> kind]

ValuePairs(d) ==
    LET s == Slot(d)
    IN IF d = "pms"
       THEN {Pair(s.demand_control_power_kw, s.demand_control_power_raw, "power"),
             Pair(s.total_active_power_kw, s.total_active_power_raw, "power"),
             Pair(s.soc_avg_pct, s.soc_avg_raw, "percent"),
             Pair(s.soh_avg_pct, s.soh_avg_raw, "percent"),
             Pair(s.capacity_total_kwh, s.capacity_total_raw, "capacity")}
       ELSE IF d \in PcsKeys
       THEN {Pair(s.active_power_kw, s.active_power_raw, "power")}
       ELSE {Pair(s.soc_pct, s.soc_raw, "percent"),
             Pair(s.soh_pct, s.soh_raw, "percent"),
             Pair(s.capacity_kwh, s.capacity_raw, "capacity")}

\* What the routines store for a raw register of each kind
DecodeAs(kind, raw) ==
    CASE kind = "power" -> ToFixed1(decodePowerKw(raw))
      [] kind = "percent" -> decodeScaled(raw, 10)
      [] kind = "capacity" -> ToFixed1(decodeScaled(raw, 1))

\* C28: in every state, for every Modbus slot: Comm Status ok = true implies
\* last_error null, last_ok_ts set, and every decoded value the decoding of
\* its raw value in the same slot; and a slot's decoded and raw values are
\* all null or all set.
C28_ModbusSlotCoherent ==
    \A d \in ModbusKeys :
        /\ Slot(d).comm.ok =>
              /\ Slot(d).comm.last_error = Null
              /\ IsNum(Slot(d).comm.last_ok_ts)
              /\ \A p \in ValuePairs(d) :
                    IsNum(p.raw) /\ p.dec = Num(DecodeAs(p.kind, p.raw.v))
        /\ \/ \A p \in ValuePairs(d) : p.dec = Null /\ p.raw = Null
           \/ \A p \in ValuePairs(d) : IsNum(p.dec) /\ IsNum(p.raw)

\* Cycle 2: bms1 has been read anew, the PMS routine failed over the values
\* of cycle 1, and the other Modbus slots are ok.
C28_Witness ==
    /\ cycleNo = 2
    /\ Slot("bms1").comm.ok /\ Slot("bms1").gen.ir = 2
    /\ ~Slot("pms").comm.ok /\ IsNum(Slot("pms").soc_avg_pct)
    /\ \A d \in PcsKeys \cup {"bms2"} : Slot(d).comm.ok

\* ---------------------------------------------------------------------------
\* Nothing is collected before the first cycle has ended
\* ---------------------------------------------------------------------------
\* Every Modbus routine has written its slot's Comm Status at least once.
AllAttempted ==
    \A d \in ModbusKeys : Slot(d).comm # defaultComm("not polled yet")

\* The records of every persistence call made so far
PersistedRows ==
    UNION {{q.rows[i] : i \in 1 .. Len(q.rows)} : q \in {poolQueries[k] : k \in 1 .. Len(poolQueries)}}

\* C29: once the snapshot's timestamp is set every Modbus slot has been
\* attempted; while it is null a collection tick builds no record and makes
\* no persistence call, so no record ever reports a device that was never
\* polled.
C29_NothingCollectedBeforeFirstCycle ==
    [][/\ snapshot.ts' # Null => AllAttempted'
       /\ snapshot.ts = Null =>
             /\ NewQueries = 0
             /\ collector'.rows = << >>
             /\ ~collectInFlight'
       /\ \A r \in PersistedRows' :
             r.metric = "comm_error" =>
                r.raw.error \notin {Str("not polled yet"), Str("bridge not polled yet")}]_vars

\* A tick ran in the middle of the first cycle, the PMS read and the other
\* slots not attempted yet: nothing was built and nothing persisted.
C29_Witness ==
    /\ collector.ticks = 1
    /\ snapshot.ts = Null
    /\ cycleNo = 1
    /\ Slot("pms").comm.ok
    /\ Slot("pcs1").comm = defaultComm("not polled yet")
    /\ poolQueries = << >>
    /\ ~collectInFlight

\* ---------------------------------------------------------------------------
\* After stop()
\* ---------------------------------------------------------------------------
\* Once stopped: no cycle starts, the loop leaves only through its exit, what
\* the cycle in flight writes is still written, and after the loop has
\* ended neither the snapshot nor the loop changes.
StoppedLoopStartsNothing ==
    [][/\ ~running =>
             /\ cycleNo' = cycleNo
             /\ ~running'
             /\ loopPc' # loopPc => loopPc' \in {"sleep", "exit"}
             /\ (loopPc = "cycle" /\ loopPc' = "sleep") =>
                   completed' = cycleNo /\ snapshot'.ts = Num(now)
       /\ loopPc = "exit" =>
             /\ loopPc' = "exit"
             /\ snapshot' = snapshot]_vars

\* A stopped loop ends.
StoppedLoopTerminates == ~running ~> (loopPc = "exit" /\ completed = cycleNo)

\* C30: after stop() no new poll cycle starts; the cycle in flight runs to
\* completion and stamps the timestamp, then the loop terminates, and from
\* then on the snapshot is not modified.
C30_StopEndsTheLoop == StoppedLoopStartsNothing /\ StoppedLoopTerminates

====
